---- MODULE Spec2Model ----
(***************************************************************************)
(* A model of advanced_traffic_analyzer.py: the argument validation, the   *)
(* record parser, the filter predicate, the TrafficAnalyzer aggregator and *)
(* the two-pass driver (find_max_timestamp, process_file, main).           *)
(*                                                                         *)
(* Representation.                                                         *)
(*   - A Python Optional is a sequence of length 0 (None) or 1 (a value).  *)
(*   - A log line is the sequence of its whitespace-separated tokens, each *)
(*     token a string; int() and str.upper() are tables over the tokens    *)
(*     that occur in the model.                                            *)
(*   - A Counter is a function whose domain is the set of keys it holds.   *)
(*   - The loops of find_max_timestamp and process_file take one step per  *)
(*     line of the file.                                                   *)
(***************************************************************************)
EXTENDS Integers, Sequences, FiniteSets, TLC

VARIABLES
    argv,        \* the command line as argparse hands it to parse_args
    file_state,  \* "ok", "missing" or "unreadable": what os.path/os.access see
    logfile,     \* the lines of the log file, in file order
    args,        \* Optional: the validated namespace parse_args returns
    pc,          \* the position of the running code
    line_no,     \* lines consumed by the current pass over the file
    max_ts,      \* find_max_timestamp's running maximum (Optional)
    cutoff,      \* Optional: the cutoff handed to process_record
    analyzer,    \* the TrafficAnalyzer instance
    stderr,      \* the diagnostics written by eprint, in order
    report,      \* Optional: what generate_report printed
    exit_code,   \* Optional: the process's exit status
    record,      \* Optional: the record of the call in progress (unit calls)
    result,      \* Optional: the value the call in progress returned
    processed,   \* history: the records handed to process_record, in order
    lines_read,  \* history: how many lines were read from the log file
    passes,      \* history: how many times process_file ran
    run,         \* which run of main this is (1, or 2 after a shuffle)
    first_run    \* Optional: the outcome of run 1, kept for comparison

vars == <<argv, file_state, logfile, args, pc, line_no, max_ts, cutoff,
          analyzer, stderr, report, exit_code, record, result, processed,
          lines_read, passes, run, first_run>>

(***************************************************************************)
(* Bounds of the model.                                                    *)
(***************************************************************************)
MaxLines == 3
MaxShuffleLines == 3
MaxCalls == 3

(***************************************************************************)
(* Python values.                                                          *)
(***************************************************************************)
None == <<>>
Some(x) == <<x>>
Val(opt) == opt[1]
\* bool(x) of an Optional int: None and 0 are falsy
TruthyInt(opt) == opt # None /\ Val(opt) # 0
\* bool(x) of an Optional str: None and "" are falsy
TruthyStr(opt) == opt # None /\ Val(opt) # ""

SECONDS_PER_DAY == 86400
SECONDS_PER_HOUR == 3600
HOURS == 24

ALLOWED_METHODS == {"GET", "POST", "PUT", "DELETE", "PATCH", "HEAD", "OPTIONS"}

\* int(token): the decimal literals that occur in the model; any other token
\* raises ValueError (None here)
IntLiterals ==
    [t \in {"-1", "0", "7", "10", "200", "299", "302", "400", "404", "499",
            "500", "503", "999", "1000", "4600", "86400", "87400"} |->
        CASE t = "-1" -> -1
          [] t = "0" -> 0
          [] t = "7" -> 7
          [] t = "10" -> 10
          [] t = "200" -> 200
          [] t = "299" -> 299
          [] t = "302" -> 302
          [] t = "400" -> 400
          [] t = "404" -> 404
          [] t = "499" -> 499
          [] t = "500" -> 500
          [] t = "503" -> 503
          [] t = "999" -> 999
          [] t = "1000" -> 1000
          [] t = "4600" -> 4600
          [] t = "86400" -> 86400
          [] t = "87400" -> 87400]

int(token) == IF token \in DOMAIN IntLiterals THEN Some(IntLiterals[token]) ELSE None

\* str.upper() on the tokens that occur in the model
upper(s) ==
    CASE s = "get" -> "GET"
      [] s = "post" -> "POST"
      [] s = "foo" -> "FOO"
      [] OTHER -> s

(***************************************************************************)
(* parse_log_line                                                          *)
(***************************************************************************)
parse_log_line(line) ==
    IF Len(line) # 6
    THEN None
    ELSE IF int(line[1]) = None \/ int(line[5]) = None \/ int(line[6]) = None
         THEN None
         ELSE Some([timestamp |-> Val(int(line[1])),
                    ip |-> line[2],
                    method |-> upper(line[3]),
                    url |-> line[4],
                    status |-> Val(int(line[5])),
                    size |-> Val(int(line[6]))])

(***************************************************************************)
(* matches_filters                                                         *)
(***************************************************************************)
matches_filters(rec, a) ==
    IF TruthyStr(a.method) /\ rec.method # Val(a.method)
    THEN FALSE
    ELSE IF a.status_filter # None
            /\ ~(Val(a.status_filter)[1] <= rec.status
                 /\ rec.status <= Val(a.status_filter)[2])
    THEN FALSE
    ELSE IF TruthyInt(a.start) /\ rec.timestamp < Val(a.start)
    THEN FALSE
    ELSE IF TruthyInt(a.end) /\ rec.timestamp > Val(a.end)
    THEN FALSE
    ELSE TRUE

(***************************************************************************)
(* TrafficAnalyzer                                                         *)
(***************************************************************************)
Counter == [k \in {} |-> 0]
Inc(counter, k) ==
    IF k \in DOMAIN counter
    THEN [counter EXCEPT ![k] = @ + 1]
    ELSE counter @@ (k :> 1)
Get(counter, k, default) == IF k \in DOMAIN counter THEN counter[k] ELSE default

TrafficAnalyzer(top_n) ==
    [top_n |-> top_n,
     total_requests |-> 0,
     unique_ips |-> {},
     total_data |-> 0,
     ip_counter |-> Counter,
     url_counter |-> Counter,
     method_counter |-> Counter,
     success_count |-> 0,
     client_error_count |-> 0,
     server_error_count |-> 0,
     success_size_sum |-> 0,
     recent_ip_counts |-> Counter,
     requests_per_hour |-> Counter]

\* count_status with the upper end of the 2xx range included (status <= 300)
count_status_inclusive(self, rec) ==
    IF 200 <= rec.status /\ rec.status <= 300
    THEN [self EXCEPT !.success_count = @ + 1,
                      !.success_size_sum = @ + rec.size]
    ELSE IF 400 <= rec.status /\ rec.status < 500
    THEN [self EXCEPT !.client_error_count = @ + 1]
    ELSE IF 500 <= rec.status /\ rec.status < 600
    THEN [self EXCEPT !.server_error_count = @ + 1]
    ELSE self

\* lines 127-133: the status buckets
count_status(self, rec) ==
    IF 200 <= rec.status /\ rec.status < 300
    THEN [self EXCEPT !.success_count = @ + 1,
                      !.success_size_sum = @ + rec.size]
    ELSE IF 400 <= rec.status /\ rec.status < 500
    THEN [self EXCEPT !.client_error_count = @ + 1]
    ELSE IF 500 <= rec.status /\ rec.status < 600
    THEN [self EXCEPT !.server_error_count = @ + 1]
    ELSE self

\* count_recent with hour_index 24 accepted (hour_index <= 24)
count_recent_inclusive(self, rec, c) ==
    IF TruthyInt(c) /\ rec.timestamp >= Val(c)
    THEN LET hour_index == (rec.timestamp - Val(c)) \div SECONDS_PER_HOUR
             hourly == IF 0 <= hour_index /\ hour_index <= HOURS
                       THEN Inc(self.requests_per_hour, hour_index)
                       ELSE self.requests_per_hour
         IN [self EXCEPT !.requests_per_hour = hourly,
                         !.recent_ip_counts = Inc(@, rec.ip)]
    ELSE self

\* count_recent without the timestamp >= cutoff test
count_recent_unguarded(self, rec, c) ==
    IF TruthyInt(c)
    THEN LET hour_index == (rec.timestamp - Val(c)) \div SECONDS_PER_HOUR
             hourly == IF 0 <= hour_index /\ hour_index < HOURS
                       THEN Inc(self.requests_per_hour, hour_index)
                       ELSE self.requests_per_hour
         IN [self EXCEPT !.requests_per_hour = hourly,
                         !.recent_ip_counts = Inc(@, rec.ip)]
    ELSE self

\* lines 134-138: the recent window; recent_ip_counts is incremented outside
\* the hour_index test
count_recent(self, rec, c) ==
    IF TruthyInt(c) /\ rec.timestamp >= Val(c)
    THEN LET hour_index == (rec.timestamp - Val(c)) \div SECONDS_PER_HOUR
             hourly == IF 0 <= hour_index /\ hour_index < HOURS
                       THEN Inc(self.requests_per_hour, hour_index)
                       ELSE self.requests_per_hour
         IN [self EXCEPT !.requests_per_hour = hourly,
                         !.recent_ip_counts = Inc(@, rec.ip)]
    ELSE self

\* lines 121-126: the unconditional counters
count_basic(self, rec) ==
    [self EXCEPT !.total_requests = @ + 1,
                 !.unique_ips = @ \cup {rec.ip},
                 !.total_data = @ + rec.size,
                 !.ip_counter = Inc(@, rec.ip),
                 !.url_counter = Inc(@, rec.url),
                 !.method_counter = Inc(@, rec.method)]

process_record(self, rec, c) ==
    count_recent(count_status(count_basic(self, rec), rec), rec, c)

\* generate_report: the numbers the report prints (the text layout is not
\* modelled)
generate_report(self, a, c) ==
    [total_requests |-> self.total_requests,
     unique_ips |-> Cardinality(self.unique_ips),
     total_data |-> self.total_data,
     success |-> self.success_count,
     client_errors |-> self.client_error_count,
     server_errors |-> self.server_error_count,
     recent_unique_ips |-> IF c = None THEN 0
                           ELSE Cardinality(DOMAIN self.recent_ip_counts),
     hourly |-> IF c = None THEN <<>>
                ELSE [h \in 1..HOURS |-> Get(self.requests_per_hour, h - 1, 0)]]

(***************************************************************************)
(* parse_args: the validation that follows argparse.  argv.status is the   *)
(* --status string split at its first "-" (one part: no "-" in it).        *)
(***************************************************************************)
Fail(msg) == [exit |-> Some(1), err |-> msg, args |-> None]

\* lines 42-60: the (low, high) pair, or None when the string is rejected
status_filter_of(parts) ==
    IF Len(parts) = 2
    THEN IF int(parts[1]) = None \/ int(parts[2]) = None
         THEN None
         ELSE IF Val(int(parts[1])) > Val(int(parts[2]))
              THEN None
              ELSE Some(<<Val(int(parts[1])), Val(int(parts[2]))>>)
    ELSE IF int(parts[1]) = None
         THEN None
         ELSE Some(<<Val(int(parts[1])), Val(int(parts[1]))>>)

\* line 62: the test that rejects an inverted time range
range_rejected(start, end) ==
    TruthyInt(start) /\ TruthyInt(end) /\ Val(start) > Val(end)

parse_args(av, fstate) ==
    LET method == IF TruthyStr(av.method) THEN Some(upper(Val(av.method)))
                  ELSE av.method
        status_given == av.status # None /\ av.status # Some(<<"">>)
        status_filter == IF status_given THEN status_filter_of(Val(av.status))
                         ELSE None
    IN IF fstate = "missing" THEN Fail("file not found")
       ELSE IF fstate = "unreadable" THEN Fail("cannot read file")
       ELSE IF TruthyStr(method) /\ Val(method) \notin ALLOWED_METHODS
       THEN Fail("unsupported HTTP method")
       ELSE IF status_given /\ status_filter = None
       THEN Fail(IF Len(Val(av.status)) = 2 THEN "invalid --status range"
                 ELSE "invalid --status value")
       ELSE IF range_rejected(av.start, av.end)
       THEN Fail("--start must be <= --end")
       ELSE IF av.top <= 0 THEN Fail("--top must be positive")
       ELSE [exit |-> None, err |-> "",
             args |-> Some([method |-> method,
                            status_filter |-> status_filter,
                            start |-> av.start,
                            end |-> av.end,
                            top |-> av.top])]

(***************************************************************************)
(* find_max_timestamp and process_file, one line at a time                 *)
(***************************************************************************)
\* find_max_step keeping the last matching timestamp (no comparison)
find_max_step_last(m, line, a) ==
    LET parsed == parse_log_line(line)
    IN IF parsed # None /\ matches_filters(Val(parsed), a)
       THEN Some(Val(parsed).timestamp)
       ELSE m

\* find_max_step with the comparison turned round (a running minimum)
find_max_step_min(m, line, a) ==
    LET parsed == parse_log_line(line)
    IN IF parsed # None /\ matches_filters(Val(parsed), a)
       THEN IF m = None \/ Val(parsed).timestamp < Val(m)
            THEN Some(Val(parsed).timestamp)
            ELSE m
       ELSE m

\* lines 223-227: the running maximum after one more line
find_max_step(m, line, a) ==
    LET parsed == parse_log_line(line)
    IN IF parsed # None /\ matches_filters(Val(parsed), a)
       THEN IF m = None \/ Val(parsed).timestamp > Val(m)
            THEN Some(Val(parsed).timestamp)
            ELSE m
       ELSE m

\* line 253
derive_cutoff(m) == m - SECONDS_PER_DAY

Warning(n) == [msg |-> "Warning: invalid format at line", line |-> n]
Note(text) == [msg |-> text, line |-> 0]

(***************************************************************************)
(* The inputs of the model.                                                *)
(***************************************************************************)
LineA == <<"1000", "10.0.0.1", "GET", "/a", "200", "500">>
LineB == <<"87400", "10.0.0.2", "post", "/b", "404", "0">>
LineShort == <<"1000", "10.0.0.1", "GET", "/a", "200">>
LineBadStatus == <<"1000", "10.0.0.1", "GET", "/a", "OK", "500">>
LineE == <<"0", "10.0.0.1", "GET", "/a", "503", "10">>
LineF == <<"86400", "10.0.0.3", "GET", "/b", "302", "7">>
LinePool == {LineA, LineB, LineShort, LineBadStatus, LineE, LineF}

Files(n) == UNION {[1..k -> LinePool] : k \in 0..n}

Argv(m, s, st, en, t) == [method |-> m, status |-> s, start |-> st, end |-> en, top |-> t]
NoFilters == Argv(None, None, None, None, 3)

\* command lines that pass every check but, possibly, the time-range one
FilterArgvs ==
    {Argv(m, s, st, en, 3) :
        m \in {None, Some("get")},
        s \in {None, Some(<<"200", "499">>), Some(<<"404">>)},
        st \in {None, Some(0), Some(1000), Some(4600)},
        en \in {None, Some(0), Some(1000)}}

\* command lines that one of the other checks rejects
RejectedArgvs ==
    {Argv(Some("foo"), None, None, None, 3),
     Argv(None, Some(<<"500", "400">>), None, None, 3),
     Argv(None, Some(<<"4xx", "499">>), None, None, 3),
     Argv(None, Some(<<"abc">>), None, None, 3),
     Argv(None, None, None, None, 0)}

Blank ==
    /\ args = None
    /\ line_no = 0
    /\ max_ts = None
    /\ cutoff = None
    /\ analyzer = None
    /\ stderr = <<>>
    /\ report = None
    /\ exit_code = None
    /\ record = None
    /\ result = None
    /\ processed = <<>>
    /\ lines_read = 0
    /\ passes = 0

(***************************************************************************)
(* main                                                                    *)
(***************************************************************************)
Init ==
    /\ \/ file_state = "ok" /\ argv \in FilterArgvs \cup RejectedArgvs
       \/ file_state \in {"missing", "unreadable"} /\ argv = NoFilters
    /\ logfile \in Files(MaxLines)
    /\ pc = "parse_args"
    /\ run = 1
    /\ first_run = None
    /\ Blank

\* line 246
main_parse_args ==
    /\ pc = "parse_args"
    /\ LET r == parse_args(argv, file_state)
       IN IF r.exit # None
          THEN /\ pc' = "exit"
               /\ exit_code' = r.exit
               /\ stderr' = Append(stderr, Note(r.err))
               /\ UNCHANGED args
          ELSE /\ pc' = "find_max_timestamp"
               /\ args' = r.args
               /\ UNCHANGED <<exit_code, stderr>>
    /\ line_no' = 0
    /\ max_ts' = None
    /\ UNCHANGED <<argv, file_state, logfile, cutoff, analyzer, report, record,
                   result, processed, lines_read, passes, run, first_run>>

\* lines 222-227: one iteration of find_max_timestamp's loop
find_max_timestamp_line ==
    /\ pc = "find_max_timestamp"
    /\ line_no < Len(logfile)
    /\ max_ts' = find_max_step(max_ts, logfile[line_no + 1], Val(args))
    /\ line_no' = line_no + 1
    /\ lines_read' = lines_read + 1
    /\ UNCHANGED <<argv, file_state, logfile, args, pc, cutoff, analyzer, stderr,
                   report, exit_code, record, result, processed, passes, run,
                   first_run>>

\* lines 228, 248-254 and 232: find_max_timestamp returns; main either
\* reports from a fresh analyzer and exits, or derives the cutoff and enters
\* process_file
main_after_scan ==
    /\ pc = "find_max_timestamp"
    /\ line_no = Len(logfile)
    /\ analyzer' = TrafficAnalyzer(Val(args).top)
    /\ IF max_ts = None
       THEN /\ stderr' = Append(stderr, Note("No valid records matched the filters."))
            /\ report' = Some(generate_report(analyzer', Val(args), None))
            /\ exit_code' = Some(0)
            /\ pc' = "exit"
            /\ UNCHANGED <<cutoff, line_no, passes>>
       ELSE /\ cutoff' = Some(derive_cutoff(Val(max_ts)))
            /\ pc' = "process_file"
            /\ line_no' = 0
            /\ passes' = passes + 1
            /\ UNCHANGED <<stderr, report, exit_code>>
    /\ UNCHANGED <<argv, file_state, logfile, args, max_ts, record, result,
                   processed, lines_read, run, first_run>>

\* lines 234-240: one iteration of process_file's loop
process_file_line ==
    /\ pc = "process_file"
    /\ line_no < Len(logfile)
    /\ LET parsed == parse_log_line(logfile[line_no + 1])
       IN IF parsed = None
          THEN /\ stderr' = Append(stderr, Warning(line_no + 1))
               /\ UNCHANGED <<analyzer, processed>>
          ELSE IF matches_filters(Val(parsed), Val(args))
          THEN /\ analyzer' = process_record(analyzer, Val(parsed), cutoff)
               /\ processed' = Append(processed, Val(parsed))
               /\ UNCHANGED stderr
          ELSE UNCHANGED <<analyzer, processed, stderr>>
    /\ line_no' = line_no + 1
    /\ lines_read' = lines_read + 1
    /\ UNCHANGED <<argv, file_state, logfile, args, pc, max_ts, cutoff, report,
                   exit_code, record, result, passes, run, first_run>>

\* lines 241 and 255: process_file returns, main prints the report
main_report ==
    /\ pc = "process_file"
    /\ line_no = Len(logfile)
    /\ report' = Some(generate_report(analyzer, Val(args), cutoff))
    /\ exit_code' = Some(0)
    /\ pc' = "exit"
    /\ UNCHANGED <<argv, file_state, logfile, args, line_no, max_ts, cutoff,
                   analyzer, stderr, record, result, processed, lines_read,
                   passes, run, first_run>>

Next ==
    \/ main_parse_args
    \/ find_max_timestamp_line
    \/ main_after_scan
    \/ process_file_line
    \/ main_report

Spec == Init /\ [][Next]_vars

(***************************************************************************)
(* Shuffling the file and running main again on it.                        *)
(***************************************************************************)
ShuffleArgvs ==
    {Argv(m, s, st, en, 3) :
        m \in {None, Some("get")},
        s \in {None, Some(<<"200", "499">>)},
        st \in {None, Some(1000)},
        en \in {None, Some(1000)}}

InitShuffle ==
    /\ file_state = "ok"
    /\ argv \in ShuffleArgvs
    /\ logfile \in Files(MaxShuffleLines)
    /\ pc = "parse_args"
    /\ run = 1
    /\ first_run = None
    /\ Blank

\* run 1 has ended: keep its outcome, permute the lines of the file and
\* start main again with the same command line
shuffle_and_rerun ==
    /\ pc = "exit"
    /\ run = 1
    /\ \E p \in Permutations(1..Len(logfile)) :
          /\ logfile' = [i \in 1..Len(logfile) |-> logfile[p[i]]]
          /\ first_run' = Some([cutoff |-> cutoff,
                                analyzer |-> analyzer,
                                report |-> report,
                                exit_code |-> exit_code,
                                reordered |-> logfile' # logfile])
    /\ run' = 2
    /\ pc' = "parse_args"
    /\ args' = None
    /\ line_no' = 0
    /\ max_ts' = None
    /\ cutoff' = None
    /\ analyzer' = None
    /\ stderr' = <<>>
    /\ report' = None
    /\ exit_code' = None
    /\ processed' = <<>>
    /\ lines_read' = 0
    /\ passes' = 0
    /\ UNCHANGED <<argv, file_state, record, result>>

NextShuffle ==
    \/ Next
    \/ shuffle_and_rerun

SpecShuffle == InitShuffle /\ [][NextShuffle]_vars

(***************************************************************************)
(* process_record called directly, any records, one fixed cutoff.          *)
(***************************************************************************)
Rec(ts, ip, m, u, st, sz) ==
    [timestamp |-> ts, ip |-> ip, method |-> m, url |-> u, status |-> st, size |-> sz]

RecordPool ==
    {Rec(1000, "10.0.0.1", "GET", "/a", 200, 500),
     Rec(999, "10.0.0.2", "GET", "/a", 404, 0),
     Rec(4600, "10.0.0.1", "POST", "/b", 503, 10),
     Rec(87400, "10.0.0.2", "GET", "/b", 300, 7),
     Rec(0, "10.0.0.3", "PUT", "/a", 299, 10),
     Rec(87399, "10.0.0.3", "GET", "/a", 600, 7),
     Rec(-1, "10.0.0.1", "GET", "/a", 199, 10)}

Cutoffs == {None, Some(0), Some(1000), Some(1000 - SECONDS_PER_DAY)}

InitAgg ==
    /\ argv = NoFilters
    /\ file_state = "ok"
    /\ logfile = <<>>
    /\ pc = "process_record"
    /\ run = 1
    /\ first_run = None
    /\ args = None
    /\ line_no = 0
    /\ max_ts = None
    /\ cutoff \in Cutoffs
    /\ analyzer = TrafficAnalyzer(3)
    /\ stderr = <<>>
    /\ report = None
    /\ exit_code = None
    /\ record = None
    /\ result = None
    /\ processed = <<>>
    /\ lines_read = 0
    /\ passes = 0

process_record_call ==
    /\ pc = "process_record"
    /\ Len(processed) < MaxCalls
    /\ \E rec \in RecordPool :
          /\ analyzer' = process_record(analyzer, rec, cutoff)
          /\ processed' = Append(processed, rec)
    /\ UNCHANGED <<argv, file_state, logfile, args, pc, line_no, max_ts, cutoff,
                   stderr, report, exit_code, record, result, lines_read,
                   passes, run, first_run>>

NextAgg == process_record_call

SpecAgg == InitAgg /\ [][NextAgg]_vars

(***************************************************************************)
(* matches_filters called directly on any record, with any namespace that  *)
(* parse_args returns.                                                     *)
(***************************************************************************)
InitFilter ==
    /\ argv \in FilterArgvs
    /\ file_state = "ok"
    /\ parse_args(argv, file_state).exit = None
    /\ args = parse_args(argv, file_state).args
    /\ record \in {Some(r) : r \in RecordPool}
    /\ result = None
    /\ logfile = <<>>
    /\ pc = "matches_filters"
    /\ run = 1
    /\ first_run = None
    /\ line_no = 0
    /\ max_ts = None
    /\ cutoff = None
    /\ analyzer = None
    /\ stderr = <<>>
    /\ report = None
    /\ exit_code = None
    /\ processed = <<>>
    /\ lines_read = 0
    /\ passes = 0

matches_filters_call ==
    /\ pc = "matches_filters"
    /\ result' = Some(matches_filters(Val(record), Val(args)))
    /\ pc' = "return"
    /\ UNCHANGED <<argv, file_state, logfile, args, line_no, max_ts, cutoff,
                   analyzer, stderr, report, exit_code, record, processed,
                   lines_read, passes, run, first_run>>

NextFilter == matches_filters_call

SpecFilter == InitFilter /\ [][NextFilter]_vars

(***************************************************************************)
(* Properties.                                                             *)
(***************************************************************************)
RECURSIVE SumCounter(_)
SumCounter(counter) ==
    IF DOMAIN counter = {}
    THEN 0
    ELSE LET k == CHOOSE x \in DOMAIN counter : TRUE
         IN counter[k] + SumCounter([j \in DOMAIN counter \ {k} |-> counter[j]])

SetMax(S) == CHOOSE m \in S : \A x \in S : x <= m

InStatusBuckets(st) ==
    \/ (200 <= st /\ st <= 299)
    \/ (400 <= st /\ st <= 499)
    \/ (500 <= st /\ st <= 599)

\* the positions of `processed` whose record is at or after the cutoff c
RecentCalls(c) == {i \in 1..Len(processed) : processed[i].timestamp >= c}

\* the 1-based numbers of the lines that parse and pass the filters, and of
\* those that do not parse
MatchingLines ==
    {i \in 1..Len(logfile) :
        /\ parse_log_line(logfile[i]) # None
        /\ matches_filters(Val(parse_log_line(logfile[i])), Val(args))}
MalformedLines == {i \in 1..Len(logfile) : parse_log_line(logfile[i]) = None}
MatchingTimestamps == {Val(parse_log_line(logfile[i])).timestamp : i \in MatchingLines}

CompleteRun == pc = "exit" /\ exit_code = Some(0)

\* C1 (as stated): once matches_filters has returned, a supplied start (0
\* included) above the record's timestamp, or a supplied end (0 included)
\* below it, made it return False.
C1_SuppliedBoundsApply ==
    pc = "return" =>
        /\ (Val(args).start # None /\ Val(record).timestamp < Val(Val(args).start))
              => result = Some(FALSE)
        /\ (Val(args).end # None /\ Val(record).timestamp > Val(Val(args).end))
              => result = Some(FALSE)

C2_Basics ==
    /\ analyzer.total_requests = 1
    /\ Cardinality(analyzer.unique_ips) = 1
    /\ cutoff = Some(1000 - 86400)
    /\ Val(report).total_requests = 1
    /\ Val(report).unique_ips = 1
    /\ Val(report).recent_unique_ips = 1

C3_RecentUpdatedAsOne ==
    [][(Len(processed') = Len(processed) + 1 /\ cutoff # None) =>
          LET rec == processed'[Len(processed')]
              hour_index == (rec.timestamp - Val(cutoff)) \div 3600
          IN IF rec.timestamp >= Val(cutoff) /\ 0 <= hour_index /\ hour_index < 24
             THEN /\ analyzer'.requests_per_hour =
                        Inc(analyzer.requests_per_hour, hour_index)
                  /\ analyzer'.recent_ip_counts =
                        Inc(analyzer.recent_ip_counts, rec.ip)
             ELSE /\ analyzer'.requests_per_hour = analyzer.requests_per_hour
                  /\ analyzer'.recent_ip_counts = analyzer.recent_ip_counts]_vars

\* C4 (as stated): with the cutoff main derives, every record handed to the
\* aggregator at or after the cutoff has an hour_index in 0..23 and is
\* counted in requests_per_hour.
C4_AllRecentBucketed ==
    (pc \in {"process_file", "exit"} /\ cutoff # None) =>
        /\ \A i \in RecentCalls(Val(cutoff)) :
              LET hour_index == (processed[i].timestamp - Val(cutoff)) \div 3600
              IN 0 <= hour_index /\ hour_index < 24
        /\ SumCounter(analyzer.requests_per_hour) = Cardinality(RecentCalls(Val(cutoff)))

\* C5 (as stated): in every complete run each malformed line is warned about
\* exactly once, by its 1-based number; nothing else is warned about; the
\* aggregator counts exactly the lines that parse and match, so a malformed
\* line changes no counter and does not stop the lines after it.
C5_MalformedWarnedOnce ==
    CompleteRun =>
        /\ \A i \in MalformedLines :
              Cardinality({k \in 1..Len(stderr) : stderr[k] = Warning(i)}) = 1
        /\ \A k \in 1..Len(stderr) :
              stderr[k].line # 0 => stderr[k].line \in MalformedLines
        /\ analyzer.total_requests = Cardinality(MatchingLines)

\* C6: after any sequence of process_record calls on a fresh aggregator,
\* total_requests is the sum of method_counts and is success + client errors
\* + server errors + the number of processed records whose status lies in
\* none of 200..299, 400..499, 500..599; so the three buckets sum to at most
\* total_requests, and to exactly it only if every status is in a bucket.
C6_TotalsAgree ==
    LET buckets == analyzer.success_count + analyzer.client_error_count
                   + analyzer.server_error_count
        others == {i \in 1..Len(processed) : ~InStatusBuckets(processed[i].status)}
    IN pc = "process_record" =>
          /\ analyzer.total_requests = Len(processed)
          /\ analyzer.total_requests = SumCounter(analyzer.method_counter)
          /\ analyzer.total_requests = buckets + Cardinality(others)
          /\ buckets <= analyzer.total_requests
          /\ buckets = analyzer.total_requests => others = {}

C6_Witness ==
    /\ pc = "process_record"
    /\ Len(processed) >= 2
    /\ \E i, j \in 1..Len(processed) :
          /\ InStatusBuckets(processed[i].status)
          /\ ~InStatusBuckets(processed[j].status)
    /\ Cardinality(DOMAIN analyzer.method_counter) >= 2

\* C7: running main on any permutation of the file's lines, with the same
\* command line, ends with the same cutoff, the same aggregator state (every
\* counter, set and per-key count), the same report numbers and exit status.
C7_OrderIndependent ==
    (run = 2 /\ pc = "exit") =>
        /\ cutoff = Val(first_run).cutoff
        /\ analyzer = Val(first_run).analyzer
        /\ report = Val(first_run).report
        /\ exit_code = Val(first_run).exit_code

C7_Witness ==
    /\ run = 2
    /\ pc = "exit"
    /\ Val(first_run).reordered
    /\ analyzer.total_requests >= 2
    /\ Cardinality(MatchingTimestamps) >= 2
    /\ analyzer.requests_per_hour # Counter
    /\ MalformedLines # {}

\* C8: if no line parses and matches, process_file never runs: main reports
\* from a fresh TrafficAnalyzer (all zero, all empty) with cutoff None (zero
\* recent IPs, empty hourly list) and exits 0.  If some line matches,
\* process_file runs exactly once, only after find_max_timestamp has read
\* the whole file, with cutoff = (maximum matching timestamp) - 86400.
C8_TwoPhases ==
    /\ passes <= 1
    /\ pc = "process_file" =>
          /\ passes = 1
          /\ lines_read = Len(logfile) + line_no
          /\ MatchingTimestamps # {}
          /\ cutoff = Some(SetMax(MatchingTimestamps) - 86400)
    /\ (pc = "exit" /\ args # None) =>
          /\ exit_code = Some(0)
          /\ IF MatchingTimestamps = {}
             THEN /\ passes = 0
                  /\ lines_read = Len(logfile)
                  /\ processed = <<>>
                  /\ cutoff = None
                  /\ analyzer = TrafficAnalyzer(Val(args).top)
                  /\ Val(report).total_requests = 0
                  /\ Val(report).recent_unique_ips = 0
                  /\ Val(report).hourly = <<>>
             ELSE /\ passes = 1
                  /\ lines_read = 2 * Len(logfile)
                  /\ cutoff = Some(SetMax(MatchingTimestamps) - 86400)

C8_Witness ==
    /\ CompleteRun
    /\ MatchingTimestamps = {}
    /\ Len(logfile) >= 2
    /\ \E i \in 1..Len(logfile) : i \notin MalformedLines
    /\ passes = 0

\* C9 (as stated): when --start and --end are both given (0 included) and
\* start > end, parse_args exits with status 1, no namespace reaches main and
\* no line of the log file is read.
C9_InvertedRangeRejected ==
    (/\ pc # "parse_args"
     /\ argv.start # None
     /\ argv.end # None
     /\ Val(argv.start) > Val(argv.end)) =>
        /\ exit_code = Some(1)
        /\ args = None
        /\ lines_read = 0

\* C10: with one fixed cutoff, every key of requests_per_hour is in 0..23,
\* and the counts of recent_ip_counts and requests_per_hour come only from
\* processed records with timestamp >= cutoff: each count is at most the
\* number of such records (for an IP, of such records from that IP), so a
\* record older than the cutoff changes neither mapping.
C10_RecentOnly ==
    pc = "process_record" =>
        /\ DOMAIN analyzer.requests_per_hour \subseteq 0..23
        /\ IF cutoff = None
           THEN /\ analyzer.requests_per_hour = Counter
                /\ analyzer.recent_ip_counts = Counter
           ELSE /\ SumCounter(analyzer.requests_per_hour)
                      <= Cardinality(RecentCalls(Val(cutoff)))
                /\ \A ip \in DOMAIN analyzer.recent_ip_counts :
                      analyzer.recent_ip_counts[ip] <=
                          Cardinality({i \in RecentCalls(Val(cutoff)) :
                                          processed[i].ip = ip})

C10_Witness ==
    /\ pc = "process_record"
    /\ cutoff # None
    /\ analyzer.requests_per_hour # Counter
    /\ analyzer.recent_ip_counts # Counter
    /\ \E i \in 1..Len(processed) : processed[i].timestamp < Val(cutoff)
    /\ RecentCalls(Val(cutoff)) # {}

====
